---- MODULE Spec2Model ----
(***************************************************************************)
(* level3: the agent orchestration engine.                                 *)
(*   agent.py             _load_context (history reconstruction),          *)
(*                        _collect_tools, handle_message (the turn loop)   *)
(*   capability_loader.py load_capabilities / reload_capabilities          *)
(*   bootstrap_tools.py   write_capability, restart, execute_sql           *)
(***************************************************************************)
EXTENDS Integers, Sequences, FiniteSets, TLC

VARIABLES
    settings,             \* config.settings: max_conversation_history
    raw_history,          \* _load_context: the rows of the read window, as messages
    history,              \* _load_context: the sanitized history
    scan_pc,              \* position of the stand-alone reconstruction run
    conversations,        \* table conversations, ordered by id
    capabilities,         \* table capabilities: name -> record
    files,                \* level3/capabilities/<name>.py: name -> code
    sys_modules,          \* sys.modules["level3.capabilities.<name>"]
    loaded_capabilities,  \* capability_loader._loaded_capabilities
    alive,                \* FALSE once sys.exit(42) ended the process
    turns,                \* the handle_message runs of this process
    menu,                 \* per turn: the responses the model collaborator may give
    pc,                   \* per turn: position in handle_message
    iteration,            \* per turn: _iteration
    messages,             \* per turn: messages
    tool_map,             \* per turn: tool_map (tool_schemas lists the same names)
    tool_calls,           \* per turn: tool_calls of the current round
    idx,                  \* per turn: index of tc in tool_calls
    result,               \* per turn: result of the current call
    rows,                 \* per turn: rows fetched by load_capabilities
    trace,                \* per turn: model calls, statements and events, in order
    epoch,                \* number of writes to capability records and code units
    last_load             \* the previous finished load_capabilities call

scan_vars == <<raw_history, history, scan_pc>>
store_vars == <<conversations, capabilities, files, sys_modules,
                loaded_capabilities, alive>>
turn_vars == <<turns, menu, pc, iteration, messages, tool_map, tool_calls, idx,
               result, rows, trace, epoch, last_load>>
vars == <<settings, scan_vars, store_vars, turn_vars>>

(***************************************************************************)
(* Bounds                                                                  *)
(***************************************************************************)
MaxLen == 4                 \* length of the raw histories given to the scan
MaxToolIterations == 2      \* settings.max_tool_iterations of the modelled runs
MaxConversationHistory == 4 \* settings.max_conversation_history of the modelled runs

(***************************************************************************)
(* Messages                                                                *)
(***************************************************************************)
None == "None"              \* Python None / SQL NULL / key absent

Falsy(v) == v = None \/ v = ""

ToolCall(id, name, arguments) == [id |-> id, name |-> name, arguments |-> arguments]

Message(role, content, tool_call_id, tcs) ==
    [role |-> role, content |-> content, tool_call_id |-> tool_call_id,
     tool_calls |-> tcs]

\* agent.py 66-88: one row of conversations as a message of raw_history
RowToMessage(row) ==
    LET tool_calls_list == row.tool_calls
    IN  Message(row.role,
                IF tool_calls_list # <<>> /\ Falsy(row.content)
                    THEN None ELSE row.content,
                IF Falsy(row.tool_call_id) THEN None ELSE row.tool_call_id,
                tool_calls_list)

expected_ids(msg) == {msg.tool_calls[k].id : k \in 1..Len(msg.tool_calls)}

\* a run that ends after its first tool message
RunEndsAfterOne(raw, j) ==
    IF j <= Len(raw) /\ raw[j].role = "tool" THEN j + 1 ELSE j
\* agent.py 110-116: the index after the contiguous run of tool messages from j
RECURSIVE RunEnd(_, _)
RunEnd(raw, j) ==
    IF j <= Len(raw) /\ raw[j].role = "tool" THEN RunEnd(raw, j + 1) ELSE j

\* agent.py 111-115: the ids found in raw[i+1 .. j-1]
found_ids(raw, i, j) ==
    {raw[k].tool_call_id : k \in {n \in (i + 1)..(j - 1) : ~Falsy(raw[n].tool_call_id)}}

\* the test with "no unrequested result" in place of equality
KeepsOnSubset(raw, i, j) == found_ids(raw, i, j) \subseteq expected_ids(raw[i])
\* agent.py 117: the test that keeps an exchange
Complete(raw, i, j) == expected_ids(raw[i]) = found_ids(raw, i, j)

\* agent.py 96-129: the sanitizing scan, from index i with the history built so far
RECURSIVE Scan(_, _, _)
Scan(raw, i, acc) ==
    IF i > Len(raw) THEN acc
    ELSE LET msg == raw[i]
         IN  IF msg.role = "tool" THEN Scan(raw, i + 1, acc)
             ELSE IF msg.tool_calls # <<>>
                 THEN LET j == RunEnd(raw, i + 1)
                      IN  IF Complete(raw, i, j)
                              THEN Scan(raw, j, acc \o SubSeq(raw, i, j - 1))
                              ELSE Scan(raw, j, acc)
                 ELSE Scan(raw, i + 1, Append(acc, msg))

\* a scan that also drops an assistant text that opens the window
DropsLeadingAssistant(raw) ==
    IF raw # <<>> /\ raw[1].role = "assistant" /\ raw[1].tool_calls = <<>>
        THEN Scan(raw, 2, <<>>)
        ELSE Scan(raw, 1, <<>>)
\* agent.py 96-129
Sanitize(raw) == Scan(raw, 1, <<>>)

(***************************************************************************)
(* The reconstruction on its own: every raw history up to MaxLen           *)
(***************************************************************************)
ScanIds == {"a", "b"}

ScanMessages ==
    {Message("user", "txt", None, <<>>), Message("assistant", "txt", None, <<>>)}
    \cup {Message("assistant", None, None, tcs) :
            tcs \in {<<ToolCall("a", "execute_sql", "q")>>,
                     <<ToolCall("b", "execute_sql", "q")>>,
                     <<ToolCall("a", "execute_sql", "q"),
                       ToolCall("b", "execute_sql", "q")>>}}
    \cup {Message("tool", "ok", id, <<>>) : id \in ScanIds \cup {None}}

RECURSIVE SeqsUpTo(_, _)
SeqsUpTo(S, n) ==
    IF n = 0 THEN {<<>>}
    ELSE LET shorter == SeqsUpTo(S, n - 1)
         IN  shorter \cup {Append(s, x) : s \in {q \in shorter : Len(q) = n - 1}, x \in S}

(***************************************************************************)
(* Capability registry: records, code units, modules                       *)
(***************************************************************************)
BootstrapNames == {"execute_sql", "write_capability", "manage_tasks", "restart"}
\* the names the modelled runs register: a new name and the name of a
\* bootstrap tool
CapNames == {"capx", "restart"}
CapOrder == <<"capx", "restart">>   \* the order in which SELECT returns the records

EmptyMap == [x \in {} |-> None]
Put(f, k, v) == [x \in DOMAIN f \cup {k} |-> IF x = k THEN v ELSE f[x]]
Del(f, k) == [x \in DOMAIN f \ {k} |-> f[x]]

\* The code of a code unit, by what importing it does:
\*   "good"    defines the function named after the capability
\*   "nofn"    imports, defines no such function
\*   "raises"  raises while it is imported, before any definition
\*   "syntax"  does not compile
CodeKinds == {"good", "nofn", "raises", "syntax"}

Module(has_fn) == [has_fn |-> has_fn]

\* importlib.import_module / importlib.reload of level3.capabilities.<name>
\* (capability_loader.py 34-38, bootstrap_tools.py 107-111). A reload runs the
\* code in the namespace of the module object that is already there, so the
\* names the new code does not define stay; a first import that fails leaves
\* no module behind.
ImportModule(mods, fs, name) ==
    IF name \notin DOMAIN fs \/ fs[name] = "raises"
        THEN [ok |-> FALSE, mods |-> mods]
    ELSE IF name \in DOMAIN mods
        THEN [ok |-> TRUE,
              mods |-> Put(mods, name, Module(mods[name].has_fn \/ fs[name] = "good"))]
        ELSE [ok |-> TRUE, mods |-> Put(mods, name, Module(fs[name] = "good"))]

\* the same with a module that is already imported left out
SkipsImported(mods, fs, name) ==
    IF name \in DOMAIN mods THEN [ok |-> FALSE, mods |-> mods]
    ELSE ImportModule(mods, fs, name)
\* capability_loader.py 34-38: the module of one record
ResolveModule(mods, fs, name) == ImportModule(mods, fs, name)

ToolSchema(name, description, parameters) ==
    [name |-> name, description |-> description, parameters |-> parameters]

CapabilityRecord(name, description, parameters) ==
    [description |-> description, file_path |-> name,
     tool_schema |-> ToolSchema(name, description, parameters)]

ToolDefinition(name, row) ==
    [name |-> name, description |-> row.description, schema |-> row.tool_schema]

\* the build that ends at the first record that does not resolve
RECURSIVE AbortsOnFailure(_, _, _, _, _)
AbortsOnFailure(recs, fs, mods, k, caps) ==
    IF k > Len(CapOrder) THEN [capabilities |-> caps, mods |-> mods]
    ELSE LET name == CapOrder[k]
         IN  IF name \notin DOMAIN recs
                 THEN AbortsOnFailure(recs, fs, mods, k + 1, caps)
                 ELSE LET imp == ResolveModule(mods, fs, name)
                      IN  IF imp.ok /\ imp.mods[name].has_fn
                              THEN AbortsOnFailure(recs, fs, imp.mods, k + 1,
                                       Put(caps, name, ToolDefinition(name, recs[name])))
                              ELSE [capabilities |-> caps, mods |-> imp.mods]
\* capability_loader.py 29-59: the mapping built from the fetched rows, one
\* record after the other; a record that does not resolve is skipped
RECURSIVE BuildCapabilities(_, _, _, _, _)
BuildCapabilities(recs, fs, mods, k, caps) ==
    IF k > Len(CapOrder) THEN [capabilities |-> caps, mods |-> mods]
    ELSE LET name == CapOrder[k]
         IN  IF name \notin DOMAIN recs
                 THEN BuildCapabilities(recs, fs, mods, k + 1, caps)
                 ELSE LET imp == ResolveModule(mods, fs, name)
                          resolved == imp.ok /\ imp.mods[name].has_fn
                      IN  BuildCapabilities(recs, fs, imp.mods, k + 1,
                              IF resolved
                                  THEN Put(caps, name, ToolDefinition(name, recs[name]))
                                  ELSE caps)

\* capability_loader.py 18-62, after the rows are fetched
load_capabilities(recs, fs, mods) == BuildCapabilities(recs, fs, mods, 1, EmptyMap)

\* agent.py 161-174: the names of tool_map (and of tool_schemas); a capability
\* entry is written after the bootstrap entry of the same name
collect_tools(caps) ==
    [name \in BootstrapNames \cup DOMAIN caps |->
        IF name \in DOMAIN caps THEN "capability" ELSE "bootstrap"]

(***************************************************************************)
(* Tools                                                                   *)
(***************************************************************************)
\* tc["function"]["arguments"]: valid is whether the text is JSON; mode is the
\* field the tool branches on (restart: mode; the others: whether the call
\* succeeds); name, code and ver are the fields of a write_capability call
Args(valid, mode, name, code, ver) ==
    [valid |-> valid, mode |-> mode, name |-> name, code |-> code, ver |-> ver]

Description(ver) == IF ver = 1 THEN "d1" ELSE "d2"
Parameters(ver) == IF ver = 1 THEN "p1" ELSE "p2"

\* the result texts
Rows == "[rows]"
Reloaded == "{status: reloaded}"
UnknownMode == "{error: unknown mode}"
SyntaxError == "{error: syntax_error}"
ImportError == "{error: import_error}"
MissingFunction == "{error: missing_function}"
WriteOk == "{status: ok}"
CapOk == "text"
RestartMarker == "{_restart: true}"
NonString == "<dict>"                   \* a result that is no str
ErrException == "{error: str(e)}"
ErrUnknownTool == "{error: unknown tool}"

Rejections == {SyntaxError, ImportError, MissingFunction}

\* the rejection without the removal
KeepCodeUnit(fs, name) == fs
\* bootstrap_tools.py 115, 123: os.remove(file_path)
RemoveCodeUnit(fs, name) == Del(fs, name)

\* the syntax check made after the file is written
RejectsAfterWrite(args, fs, mods) ==
    [outcome |-> SyntaxError, files |-> Put(fs, args.name, args.code), mods |-> mods]
\* bootstrap_tools.py 85-94: compile() fails and the result is returned before
\* any file is opened
SyntaxRejected(args, fs, mods) ==
    [outcome |-> SyntaxError, files |-> fs, mods |-> mods]

\* bootstrap_tools.py 83-127: write_capability up to the first await
WriteCapabilityCheck(args, fs, mods) ==
    IF args.code = "syntax"
        THEN SyntaxRejected(args, fs, mods)
    ELSE LET written == Put(fs, args.name, args.code)
             imp == ImportModule(mods, written, args.name)
         IN  IF ~imp.ok
                 THEN [outcome |-> ImportError,
                       files |-> RemoveCodeUnit(written, args.name), mods |-> imp.mods]
             ELSE IF ~imp.mods[args.name].has_fn
                 THEN [outcome |-> MissingFunction,
                       files |-> RemoveCodeUnit(written, args.name), mods |-> imp.mods]
                 ELSE [outcome |-> WriteOk, files |-> written, mods |-> imp.mods]

\* What tool_def.execute does up to its first await or its end:
\*   return  the tool returned value          raise  it raised an Exception
\*   exit    it raised SystemExit             reload it awaits reload_capabilities
\*   upsert  write_capability awaits its INSERT ... ON CONFLICT
Outcome(kind, value, fs, mods) ==
    [kind |-> kind, value |-> value, files |-> fs, mods |-> mods]

Execute(owner, tc, fs, mods) ==
    LET args == tc.arguments
    IN  IF owner = "capability"
            THEN CASE args.mode = "ok" -> Outcome("return", CapOk, fs, mods)
                   [] args.mode = "marker" -> Outcome("return", RestartMarker, fs, mods)
                   [] args.mode = "nonstring" -> Outcome("return", NonString, fs, mods)
                   [] args.mode = "exit" -> Outcome("exit", None, fs, mods)
                   [] args.mode = "raise" -> Outcome("raise", None, fs, mods)
                   [] OTHER -> Outcome("return", CapOk, fs, mods)
        ELSE IF tc.name = "restart"
            \* bootstrap_tools.py 345-358
            THEN CASE args.mode = "full" -> Outcome("exit", None, fs, mods)
                   [] args.mode = "reload" -> Outcome("reload", None, fs, mods)
                   [] OTHER -> Outcome("return", UnknownMode, fs, mods)
        ELSE IF tc.name = "write_capability"
            THEN LET w == WriteCapabilityCheck(args, fs, mods)
                 IN  IF w.outcome = WriteOk
                         THEN Outcome("upsert", None, w.files, w.mods)
                         ELSE Outcome("return", w.outcome, w.files, w.mods)
        \* execute_sql, manage_tasks: the statements of the modelled runs leave
        \* conversations and capabilities alone
        ELSE IF args.mode = "ok" THEN Outcome("return", Rows, fs, mods)
        ELSE Outcome("raise", None, fs, mods)

(***************************************************************************)
(* The turn: handle_message                                                *)
(***************************************************************************)
Entry(op, kind, name, content, round, i) ==
    [op |-> op, kind |-> kind, name |-> name, content |-> content,
     round |-> round, idx |-> i]

Event(t, type, name, content) ==
    Entry("event", type, name, content, iteration[t], idx[t])
Insert(t, role, content, id) == Entry("insert", role, id, content, iteration[t], idx[t])

Log(t, entries) == trace' = [trace EXCEPT ![t] = @ \o entries]

\* the INSERT INTO conversations statements (agent.py 185, 214, 229, 266)
InsertRow(convs, row) == Append(convs, row)

\* ORDER BY id DESC LIMIT n, reversed (agent.py 61-68)
Window(convs, n) ==
    IF Len(convs) <= n THEN convs ELSE SubSeq(convs, Len(convs) - n + 1, Len(convs))

\* the history without the sanitizing scan
ReadsWindowOnly(convs) ==
    LET window == Window(convs, settings.max_conversation_history)
    IN  [k \in 1..Len(window) |-> RowToMessage(window[k])]
\* agent.py 55-131
load_context(convs) ==
    LET window == Window(convs, settings.max_conversation_history)
    IN  Sanitize([k \in 1..Len(window) |-> RowToMessage(window[k])])

\* the round without its assistant row
SkipsAssistantRow(convs, row) == convs
\* agent.py 229-234: the assistant message of a round is saved
SaveAssistantToolCalls(convs, row) == InsertRow(convs, row)

UserText == "hello"
SystemMessage == Message("system", "prompt", None, <<>>)

Live(t) == alive /\ t \in turns

\* agent.py 185-189
Start(t) ==
    /\ Live(t) /\ pc[t] = "idle"
    /\ conversations' = InsertRow(conversations, Message("user", UserText, None, <<>>))
    /\ pc' = [pc EXCEPT ![t] = "context"]
    /\ Log(t, <<Insert(t, "user", UserText, None)>>)
    /\ UNCHANGED <<settings, scan_vars, capabilities, files, sys_modules, loaded_capabilities,
                   alive, turns, menu, iteration, messages, tool_map, tool_calls,
                   idx, result, rows, epoch, last_load>>

\* agent.py 191-198
LoadContext(t) ==
    /\ Live(t) /\ pc[t] = "context"
    /\ messages' = [messages EXCEPT ![t] =
            <<SystemMessage>> \o load_context(conversations)
                \o <<Message("user", UserText, None, <<>>)>>]
    /\ tool_map' = [tool_map EXCEPT ![t] = collect_tools(loaded_capabilities)]
    /\ pc' = [pc EXCEPT ![t] = "model"]
    /\ UNCHANGED <<settings, scan_vars, store_vars, turns, menu, iteration, tool_calls, idx,
                   result, rows, trace, epoch, last_load>>

\* a failed call that leaves a message of its round behind
SavesPartialAssistant(convs) == InsertRow(convs, Message("assistant", "", None, <<>>))
\* agent.py 203-206: the except branch yields the error event and returns; it
\* has no INSERT
OnChatError(convs) == convs

\* a final response without text that is not saved
SkipsEmptyText(convs, text) ==
    IF text = "" THEN convs
    ELSE InsertRow(convs, Message("assistant", text, None, <<>>))
\* agent.py 213-218: text = content or "", saved as an assistant row
SaveFinalText(convs, text) == InsertRow(convs, Message("assistant", text, None, <<>>))

\* a response with text taken as the final one
TextIsFinal(tcs, content) == tcs = <<>> \/ ~Falsy(content)
\* agent.py 211: if not tool_calls
IsFinal(tcs, content) == tcs = <<>>

\* a response of chat(): kind "raise" is a failed call
Response(kind, content, tcs) == [kind |-> kind, content |-> content, tool_calls |-> tcs]

\* agent.py 200-234: one model call and what follows it up to the next await
\* that another turn can see
ModelCall(t) ==
    /\ Live(t) /\ pc[t] = "model" /\ iteration[t] < MaxToolIterations
    /\ \E r \in menu[t] :
        LET called == Entry("model", r.kind, None, r.content, iteration[t], Len(r.tool_calls))
        IN  IF r.kind = "raise"
                THEN /\ Log(t, <<called, Event(t, "error", None, "LLM error")>>)
                     /\ pc' = [pc EXCEPT ![t] = "done"]
                     /\ conversations' = OnChatError(conversations)
                     /\ UNCHANGED <<messages, tool_calls, idx>>
            ELSE IF IsFinal(r.tool_calls, r.content)
                THEN LET text == IF Falsy(r.content) THEN "" ELSE r.content
                     IN  /\ conversations' = SaveFinalText(conversations, text)
                         /\ Log(t, <<called, Insert(t, "assistant", text, None),
                                     Event(t, "assistant", None, text)>>)
                         /\ pc' = [pc EXCEPT ![t] = "done"]
                         /\ UNCHANGED <<messages, tool_calls, idx>>
                ELSE LET text == IF Falsy(r.content) THEN "" ELSE r.content
                         assistant_msg ==
                            Message("assistant",
                                    IF Falsy(r.content) THEN None ELSE r.content,
                                    None, r.tool_calls)
                     IN  /\ messages' = [messages EXCEPT ![t] = Append(@, assistant_msg)]
                         /\ conversations' =
                                SaveAssistantToolCalls(conversations,
                                    Message("assistant", text, None, r.tool_calls))
                         /\ tool_calls' = [tool_calls EXCEPT ![t] = r.tool_calls]
                         /\ idx' = [idx EXCEPT ![t] = 1]
                         /\ Log(t, <<called, Insert(t, "assistant", text, None)>>)
                         /\ pc' = [pc EXCEPT ![t] = "dispatch"]
    /\ UNCHANGED <<settings, scan_vars, capabilities, files, sys_modules, loaded_capabilities,
                   alive, turns, menu, iteration, tool_map, result, rows, epoch,
                   last_load>>

\* agent.py 285-286
MaxIterations(t) ==
    /\ Live(t) /\ pc[t] = "model" /\ iteration[t] = MaxToolIterations
    /\ Log(t, <<Event(t, "error", None, "Max tool iterations reached")>>)
    /\ pc' = [pc EXCEPT ![t] = "done"]
    /\ UNCHANGED <<settings, scan_vars, store_vars, turns, menu, iteration, messages, tool_map,
                   tool_calls, idx, result, rows, epoch, last_load>>

\* the calls taken from the end of the list
TakesFromEnd(t) == tool_calls[t][Len(tool_calls[t]) - idx[t] + 1]
\* agent.py 237: for tc in tool_calls
tc(t) == tool_calls[t][idx[t]]

\* a result event that does not name its tool
NamelessResult(t, value) == Event(t, "tool_result", None, value)
\* agent.py 259: {"type": "tool_result", "name": fn_name, "content": result}
ToolResult(t, value) == Event(t, "tool_result", tc(t).name, value)

\* agent.py 259: the result is there, tool_result is yielded
Finish(t, entries, value) ==
    /\ result' = [result EXCEPT ![t] = value]
    /\ Log(t, entries \o <<ToolResult(t, value)>>)
    /\ pc' = [pc EXCEPT ![t] = "persist"]

\* agent.py 236-257: tool_call is yielded, the tool is looked up and runs up to
\* its first await
Dispatch(t) ==
    /\ Live(t) /\ pc[t] = "dispatch"
    /\ LET call == tc(t)
           yielded == Event(t, "tool_call", call.name, None)
           ran(raised) == Entry("exec", raised, call.name, None, iteration[t], idx[t])
       IN  IF ~call.arguments.valid
               \* agent.py 245: json.loads raises outside any try
               THEN /\ pc' = [pc EXCEPT ![t] = "raised"]
                    /\ Log(t, <<Entry("raise", "JSONDecodeError", call.name, None,
                                      iteration[t], idx[t])>>)
                    /\ UNCHANGED <<files, sys_modules, alive, result, epoch>>
           ELSE IF call.name \notin DOMAIN tool_map[t]
               THEN /\ Finish(t, <<yielded>>, ErrUnknownTool)
                    /\ UNCHANGED <<files, sys_modules, alive, epoch>>
               ELSE LET out == Execute(tool_map[t][call.name], call, files, sys_modules)
                    IN  /\ files' = out.files
                        /\ sys_modules' = out.mods
                        /\ epoch' = IF out.files = files THEN epoch ELSE epoch + 1
                        /\ CASE out.kind = "return" ->
                                    /\ Finish(t, <<yielded, ran(None)>>, out.value)
                                    /\ UNCHANGED alive
                             [] out.kind = "raise" ->
                                    /\ Finish(t, <<yielded, ran("Exception")>>, ErrException)
                                    /\ UNCHANGED alive
                             [] out.kind = "exit" ->
                                    /\ alive' = FALSE
                                    /\ Log(t, <<yielded, ran("SystemExit"),
                                                Entry("exit", "tool", call.name, None,
                                                      iteration[t], idx[t])>>)
                                    /\ UNCHANGED <<pc, result>>
                             [] out.kind = "upsert" ->
                                    /\ pc' = [pc EXCEPT ![t] = "upsert"]
                                    /\ Log(t, <<yielded, ran(None)>>)
                                    /\ UNCHANGED <<alive, result>>
                             [] out.kind = "reload" ->
                                    /\ pc' = [pc EXCEPT ![t] = "fetch"]
                                    /\ Log(t, <<yielded, ran(None)>>)
                                    /\ UNCHANGED <<alive, result>>
    /\ UNCHANGED <<settings, scan_vars, conversations, capabilities, loaded_capabilities, turns,
                   menu, iteration, messages, tool_map, tool_calls, idx, rows,
                   last_load>>

\* an update that leaves the description of an existing record as it was
KeepsDescription(recs, name, rec) ==
    IF name \in DOMAIN recs
        THEN Put(recs, name, [rec EXCEPT !.description = recs[name].description])
        ELSE Put(recs, name, rec)
\* bootstrap_tools.py 138-149: INSERT ... ON CONFLICT (name) DO UPDATE SET
\* description, file_path, tool_schema
InsertOrUpdate(recs, name, rec) == Put(recs, name, rec)

\* bootstrap_tools.py 129-149: the upsert of the capability record
Upsert(t) ==
    /\ Live(t) /\ pc[t] = "upsert"
    /\ LET args == tc(t).arguments
       IN  capabilities' =
              InsertOrUpdate(capabilities, args.name,
                  CapabilityRecord(args.name, Description(args.ver), Parameters(args.ver)))
    /\ epoch' = epoch + 1
    /\ pc' = [pc EXCEPT ![t] = "fetch"]
    /\ UNCHANGED <<settings, scan_vars, conversations, files, sys_modules, loaded_capabilities,
                   alive, turns, menu, iteration, messages, tool_map, tool_calls, idx,
                   result, rows, trace, last_load>>

\* capability_loader.py 24-27: SELECT ... FROM capabilities
LoadFetch(t) ==
    /\ Live(t) /\ pc[t] = "fetch"
    /\ rows' = [rows EXCEPT ![t] = [records |-> capabilities, epoch |-> epoch]]
    /\ pc' = [pc EXCEPT ![t] = "swap"]
    /\ UNCHANGED <<settings, scan_vars, store_vars, turns, menu, iteration, messages, tool_map,
                   tool_calls, idx, result, trace, epoch, last_load>>

\* the assignment without the global declaration: the name bound is a local
AssignsLocal(old, built) == old
\* capability_loader.py 22, 61: _loaded_capabilities = capabilities, the
\* mapping built by this call and no part of the mapping it replaces
Swap(old, built) == built

\* capability_loader.py 29-62, then the return of the tool that awaited the
\* reload (bootstrap_tools.py 154, 356)
LoadSwap(t) ==
    /\ Live(t) /\ pc[t] = "swap"
    /\ LET built == load_capabilities(rows[t].records, files, sys_modules)
       IN  /\ loaded_capabilities' = Swap(loaded_capabilities, built.capabilities)
           /\ sys_modules' = built.mods
           /\ last_load' = [snapshot |-> built.capabilities,
                            previous |-> last_load.snapshot,
                            finished |-> last_load.finished \cup {built.capabilities},
                            fetched |-> rows[t].epoch,
                            epoch |-> IF rows[t].epoch = epoch THEN epoch ELSE -1,
                            unchanged |-> rows[t].epoch = epoch /\ last_load.epoch = epoch]
    /\ Finish(t, <<>>, IF tc(t).name = "write_capability" THEN WriteOk ELSE Reloaded)
    /\ UNCHANGED <<settings, scan_vars, conversations, capabilities, files, alive, turns, menu,
                   iteration, messages, tool_map, tool_calls, idx, rows, epoch>>

\* the tools collected again after every call
CollectsAfterEachCall(map, caps, last) == collect_tools(caps)
\* agent.py 237-283: tool_map is assigned after the for loop over the calls of
\* the round, not inside it
RoundMap(map, caps, last) == IF last THEN collect_tools(caps) ELSE map

\* agent.py 261-283: the result is appended and saved, a restart marker is
\* honoured, and the loop goes to the next call or the next round
Persist(t) ==
    /\ Live(t) /\ pc[t] = "persist"
    /\ messages' = [messages EXCEPT ![t] =
            Append(@, Message("tool", result[t], tc(t).id, <<>>))]
    /\ IF result[t] = NonString
           \* the driver rejects a parameter that is no str for a TEXT column
           THEN /\ pc' = [pc EXCEPT ![t] = "raised"]
                /\ Log(t, <<Entry("raise", "DataError", tc(t).name, None,
                                  iteration[t], idx[t])>>)
                /\ UNCHANGED <<conversations, alive, idx, iteration, tool_map>>
           ELSE /\ conversations' =
                      InsertRow(conversations, Message("tool", result[t], tc(t).id, <<>>))
                /\ IF result[t] = RestartMarker
                       THEN /\ alive' = FALSE
                            /\ Log(t, <<Insert(t, "tool", result[t], tc(t).id),
                                        Entry("exit", "marker", tc(t).name, None,
                                              iteration[t], idx[t])>>)
                            /\ UNCHANGED <<pc, idx, iteration, tool_map>>
                       ELSE /\ Log(t, <<Insert(t, "tool", result[t], tc(t).id)>>)
                            /\ UNCHANGED alive
                            /\ IF idx[t] < Len(tool_calls[t])
                                   THEN /\ idx' = [idx EXCEPT ![t] = @ + 1]
                                        /\ pc' = [pc EXCEPT ![t] = "dispatch"]
                                        /\ tool_map' = [tool_map EXCEPT ![t] =
                                                RoundMap(@, loaded_capabilities, FALSE)]
                                        /\ UNCHANGED iteration
                                   ELSE /\ tool_map' = [tool_map EXCEPT ![t] =
                                                RoundMap(@, loaded_capabilities, TRUE)]
                                        /\ iteration' = [iteration EXCEPT ![t] = @ + 1]
                                        /\ pc' = [pc EXCEPT ![t] = "model"]
                                        /\ UNCHANGED idx
    /\ UNCHANGED <<settings, scan_vars, capabilities, files, sys_modules, loaded_capabilities,
                   turns, menu, tool_calls, result, rows, epoch, last_load>>

(***************************************************************************)
(* The model collaborator: the responses of the modelled runs              *)
(***************************************************************************)
NoArgs(mode) == Args(TRUE, mode, None, None, 0)
Sql(id, mode) == ToolCall(id, "execute_sql", NoArgs(mode))
BadJson(id) == ToolCall(id, "execute_sql", Args(FALSE, None, None, None, 0))
BadJsonCap(id) == ToolCall(id, "capx", Args(FALSE, None, None, None, 0))
Restart(id, mode) == ToolCall(id, "restart", NoArgs(mode))
Write(id, code, ver) ==
    ToolCall(id, "write_capability", Args(TRUE, "write", "capx", code, ver))
Cap(id, mode) == ToolCall(id, "capx", NoArgs(mode))
\* a capability registered under the name of the bootstrap tool restart
WriteRestart(id) ==
    ToolCall(id, "write_capability", Args(TRUE, "write", "restart", "good", 1))

SingleCalls ==
    {Sql("a", "ok"), Sql("a", "raise"), BadJson("a"),
     Restart("a", "reload"), Restart("a", "full")}
    \cup {Write("a", "good", 1), Write("a", "good", 2), Write("a", "raises", 2),
          Write("a", "nofn", 2), Write("a", "syntax", 2)}
    \cup {Cap("a", mode) : mode \in {"ok", "raise", "exit", "marker", "nonstring"}}
    \cup {BadJsonCap("a"), WriteRestart("a")}

CallLists ==
    {<<call>> : call \in SingleCalls}
    \cup {<<Write("a", "good", 1), Cap("b", "ok")>>,
          <<Sql("a", "raise"), Sql("b", "ok")>>,
          <<Restart("a", "full"), Sql("b", "ok")>>,
          <<Cap("a", "marker"), Sql("b", "ok")>>,
          <<Sql("a", "ok"), BadJson("b")>>,
          <<Write("a", "raises", 2), Restart("b", "reload")>>}

Responses ==
    {Response("reply", None, tcs) : tcs \in CallLists}
    \cup {Response("reply", "txt", <<Sql("a", "ok")>>),
          Response("reply", "txt", <<>>), Response("reply", None, <<>>),
          Response("raise", None, <<>>)}

\* the responses of the runs with two turns at once: one turn registers
\* capabilities, the other reloads the registry
ConcurrentResponses ==
    [t \in {1, 2} |->
        IF t = 1
            THEN {Response("reply", None, <<Write("a", "good", 1)>>),
                  Response("reply", "txt", <<>>)}
            ELSE {Response("reply", None, <<Restart("b", "reload")>>),
                  Response("reply", "txt", <<>>)}]

(***************************************************************************)
(* Initial states: a process that has just started (main.py 34-44) over    *)
(* what earlier processes left in the capabilities table and on disk       *)
(***************************************************************************)
Turns == {1, 2}

Registered == Put(EmptyMap, "capx", CapabilityRecord("capx", "d1", "p1"))

\* nothing registered; capx registered; capx registered and its code unit
\* removed by a later rejected write; capx registered and its code unit
\* replaced by code without the function while the module was loaded
Persisted ==
    {[capabilities |-> EmptyMap, files |-> EmptyMap],
     [capabilities |-> Registered, files |-> Put(EmptyMap, "capx", "good")],
     [capabilities |-> Registered, files |-> EmptyMap],
     [capabilities |-> Registered, files |-> Put(EmptyMap, "capx", "nofn")]}

NoScan ==
    /\ raw_history = <<>>
    /\ history = <<>>
    /\ scan_pc = "off"

Settings(n) == [max_conversation_history |-> n]

\* main.py 37: the load of the startup over what is in the table and on disk
Launched(left) ==
    \E p \in left :
        LET built == load_capabilities(p.capabilities, p.files, EmptyMap)
        IN  /\ capabilities = p.capabilities
            /\ files = p.files
            /\ sys_modules = built.mods
            /\ loaded_capabilities = built.capabilities
            /\ last_load = [snapshot |-> built.capabilities,
                            previous |-> built.capabilities,
                            finished |-> {built.capabilities},
                            fetched |-> 0,
                            epoch |-> 0, unchanged |-> FALSE]

\* no handle_message run has started
Waiting(running, responses, stored, windows) ==
    /\ settings \in {Settings(n) : n \in windows}
    /\ conversations \in stored
    /\ alive = TRUE
    /\ turns = running
    /\ menu = responses
    /\ pc = [t \in Turns |-> "idle"]
    /\ iteration = [t \in Turns |-> 0]
    /\ messages = [t \in Turns |-> <<>>]
    /\ tool_map = [t \in Turns |-> collect_tools(EmptyMap)]
    /\ tool_calls = [t \in Turns |-> <<>>]
    /\ idx = [t \in Turns |-> 0]
    /\ result = [t \in Turns |-> None]
    /\ rows = [t \in Turns |-> [records |-> EmptyMap, epoch |-> 0]]
    /\ trace = [t \in Turns |-> <<>>]
    /\ epoch = 0

Started(running, responses, left, stored, windows) ==
    Launched(left) /\ Waiting(running, responses, stored, windows)

Init ==
    NoScan /\ Started({1}, [t \in Turns |-> Responses], Persisted, {<<>>},
                      {MaxConversationHistory})

Next ==
    \E t \in Turns :
        \/ Start(t)
        \/ LoadContext(t)
        \/ ModelCall(t)
        \/ MaxIterations(t)
        \/ Dispatch(t)
        \/ Upsert(t)
        \/ LoadFetch(t)
        \/ LoadSwap(t)
        \/ Persist(t)

\* one turn at a time
Spec == Init /\ [][Next]_vars

\* two turns at once over an empty capabilities table
InitConcurrent ==
    NoScan /\ Started({1, 2}, ConcurrentResponses,
                      {[capabilities |-> EmptyMap, files |-> EmptyMap]}, {<<>>},
                      {MaxConversationHistory})

SpecConcurrent == InitConcurrent /\ [][Next]_vars

\* the reconstruction alone, on every raw history up to MaxLen
InitScan ==
    /\ raw_history \in SeqsUpTo(ScanMessages, MaxLen)
    /\ history = <<>>
    /\ scan_pc = "scan"
    /\ Started({}, [t \in Turns |-> {}],
               {[capabilities |-> EmptyMap, files |-> EmptyMap]}, {<<>>},
               {MaxConversationHistory})

\* agent.py 96-129
Reconstruct ==
    /\ scan_pc = "scan"
    /\ history' = Sanitize(raw_history)
    /\ scan_pc' = "done"
    /\ UNCHANGED <<settings, raw_history, store_vars, turn_vars>>

NextScan == Reconstruct

SpecScan == InitScan /\ [][NextScan]_vars

\* load_capabilities alone, on every capabilities table, every set of code
\* units and every set of imported modules over CapNames
MapsInto(names, values) == UNION {[d -> values] : d \in SUBSET names}

InitLoad ==
    /\ raw_history = <<>>
    /\ history = <<>>
    /\ scan_pc = "load"
    /\ capabilities \in {[n \in d |-> CapabilityRecord(n, "d1", "p1")] : d \in SUBSET CapNames}
    /\ files \in MapsInto(CapNames, {"good", "nofn", "raises"})
    /\ sys_modules \in MapsInto(CapNames, {Module(TRUE), Module(FALSE)})
    /\ loaded_capabilities = EmptyMap
    /\ last_load = [snapshot |-> EmptyMap, previous |-> EmptyMap,
                    finished |-> {EmptyMap}, fetched |-> 0,
                    epoch |-> 0, unchanged |-> FALSE]
    /\ Waiting({}, [t \in Turns |-> {}], {<<>>}, {MaxConversationHistory})

\* capability_loader.py 18-62
Load ==
    /\ scan_pc = "load"
    /\ LET built == load_capabilities(capabilities, files, sys_modules)
       IN  /\ loaded_capabilities' = Swap(loaded_capabilities, built.capabilities)
           /\ sys_modules' = built.mods
    /\ scan_pc' = "loaded"
    /\ UNCHANGED <<settings, raw_history, history, conversations, capabilities, files,
                   alive, turn_vars>>

NextLoad == Load

SpecLoad == InitLoad /\ [][NextLoad]_vars

\* A turn over what earlier turns left in conversations. EarlierTurn is the
\* rows of a turn with one round of two calls, in the order the turn inserts
\* them (agent.py 185, 229, 266, 214); a turn that stopped between two INSERTs
\* (crash, sys.exit) left a prefix of them; LaterTurn is a turn after it
EarlierTurn ==
    <<Message("user", UserText, None, <<>>),
      Message("assistant", "", None, <<Sql("a", "ok"), Sql("b", "ok")>>),
      Message("tool", Rows, "a", <<>>),
      Message("tool", Rows, "b", <<>>),
      Message("assistant", "txt", None, <<>>)>>

LaterTurn ==
    <<Message("user", UserText, None, <<>>), Message("assistant", "txt", None, <<>>)>>

PriorStores ==
    {SubSeq(EarlierTurn, 1, n) \o later :
        n \in 0..Len(EarlierTurn), later \in {<<>>, LaterTurn}}

HistoryResponses ==
    {Response("reply", None, <<Sql("a", "ok"), Sql("b", "ok")>>),
     Response("reply", None, <<Write("a", "good", 1)>>),
     Response("reply", "txt", <<>>),
     Response("raise", None, <<>>)}

InitHistory ==
    NoScan /\ Started({1}, [t \in Turns |-> HistoryResponses],
                      {[capabilities |-> EmptyMap, files |-> EmptyMap]},
                      PriorStores, 1..MaxConversationHistory)

SpecHistory == InitHistory /\ [][Next]_vars

(***************************************************************************)
(* Properties                                                              *)
(***************************************************************************)
IsEvent(e) == e.op = "event"
IsModelCall(e) == e.op = "model"
IsTerminal(e) == e.op = "event" /\ e.kind \in {"assistant", "error"}

Events(t) == SelectSeq(trace[t], IsEvent)
ModelCalls(t) == SelectSeq(trace[t], IsModelCall)
TerminalEvents(t) == SelectSeq(trace[t], IsTerminal)

\* handle_message has run to its end: it returned or an exception left it
TurnOver(t) == pc[t] \in {"done", "raised"}

HasToolCalls(m) == m.role # "tool" /\ m.tool_calls # <<>>

\* the tool messages h[p+1..q] that directly follow h[p]
RunAfter(h, p) ==
    {q \in (p + 1)..Len(h) : \A k \in (p + 1)..q : h[k].role = "tool"}

\* every assistant message with tool calls is directly followed by tool
\* messages that carry exactly the requested ids, and every tool message is in
\* such a run
PairingInvariant(h) ==
    \A p \in 1..Len(h) :
        /\ HasToolCalls(h[p]) =>
              {h[q].tool_call_id : q \in {k \in RunAfter(h, p) : h[k].tool_call_id # None}}
                  = {h[p].tool_calls[k].id : k \in 1..Len(h[p].tool_calls)}
        /\ h[p].role = "tool" =>
              \E a \in 1..(p - 1) : HasToolCalls(h[a]) /\ p \in RunAfter(h, a)

\* C1: whatever the raw history, the reconstructed history satisfies the
\* pairing invariant: each kept assistant message with tool calls is directly
\* followed by a run of tool messages whose ids are the requested ids, and no
\* tool message is kept outside such a run.
C1_PairingInvariant == scan_pc = "done" => PairingInvariant(history)

\* a raw history of which one exchange (of two calls) is kept and part dropped
C1_Witness ==
    /\ scan_pc = "done"
    /\ Len(history) < Len(raw_history)
    /\ \E p \in 1..Len(history) : Len(history[p].tool_calls) = 2

\* C2: a turn in which every model call is answered with tool calls makes
\* exactly MaxToolIterations model calls and then ends with one error event,
\* "Max tool iterations reached"; no turn makes more model calls than that.
C2_BoundedTurn ==
    \A t \in turns :
        /\ Len(ModelCalls(t)) <= MaxToolIterations
        /\ (/\ TurnOver(t)
            /\ \A k \in 1..Len(ModelCalls(t)) :
                  ModelCalls(t)[k].kind = "reply" /\ ModelCalls(t)[k].idx > 0)
           => /\ Len(ModelCalls(t)) = MaxToolIterations
              /\ Len(TerminalEvents(t)) = 1
              /\ trace[t][Len(trace[t])] =
                    Entry("event", "error", None, "Max tool iterations reached",
                          MaxToolIterations, idx[t])

\* C3: whatever a known tool raises while it runs, a process-exit request
\* included, becomes the {error: ...} result of that call, and the turn goes on
\* to persist it.
C3_ToolFailureIsolation ==
    \A t \in turns : \A k \in 1..Len(trace[t]) :
        (trace[t][k].op = "exec" /\ trace[t][k].kind # None)
            => /\ alive
               /\ k < Len(trace[t])
               /\ trace[t][k + 1].op = "event"
               /\ trace[t][k + 1].kind = "tool_result"
               /\ trace[t][k + 1].content = ErrException

\* C4: a turn that has run to its end has emitted exactly one terminal event
\* (assistant or error), and that event is its last event.
C4_OneTerminalEvent ==
    \A t \in turns :
        TurnOver(t) =>
            /\ Len(TerminalEvents(t)) = 1
            /\ IsTerminal(Events(t)[Len(Events(t))])

\* the step in which write_capability returns a rejection from the set given
Rejected(t, outcomes) ==
    /\ pc[t] = "dispatch"
    /\ pc'[t] = "persist"
    /\ tc(t).name = "write_capability"
    /\ result'[t] \in outcomes

\* C5: when write_capability fails at the import or at the entry-point check,
\* then at its return there is no code unit under the capability's name, the
\* capability records are as before and the registry is as before.
C5_AtomicRegistration ==
    [][\A t \in Turns :
          Rejected(t, {ImportError, MissingFunction})
              => /\ tc(t).arguments.name \notin DOMAIN files'
                 /\ capabilities' = capabilities
                 /\ loaded_capabilities' = loaded_capabilities]_vars

\* write_capability has returned import_error for a name that is registered
C5_Witness ==
    \E t \in turns :
        /\ pc[t] = "persist"
        /\ tc(t).name = "write_capability"
        /\ result[t] = ImportError
        /\ tc(t).arguments.name \in DOMAIN capabilities

\* C6: a rejected registration changes neither the code units on disk, nor the
\* capability records, nor the registry, whatever the name.
C6_RejectionChangesNothing ==
    [][\A t \in Turns :
          Rejected(t, Rejections)
              => /\ files' = files
                 /\ capabilities' = capabilities
                 /\ loaded_capabilities' = loaded_capabilities]_vars

\* the rows at the end of the store: the assistant message of the round of
\* turn t and the results of its first k calls, in the order of the calls
RoundRows(t, k) ==
    LET n == Len(conversations)
    IN  /\ n >= k + 1
        /\ conversations[n - k].role = "assistant"
        /\ conversations[n - k].tool_calls = tool_calls[t]
        /\ \A i \in 1..k :
              /\ conversations[n - k + i].role = "tool"
              /\ conversations[n - k + i].tool_call_id = tool_calls[t][i].id

\* C7: in every round the assistant message is in the store before any result
\* of the round, and all results of the round are in the store before the next
\* model call.
C7_PersistenceOrder ==
    \A t \in turns :
        alive =>
            /\ pc[t] \in {"dispatch", "upsert", "fetch", "swap", "persist"}
                  => RoundRows(t, idx[t] - 1)
            /\ (pc[t] = "model" /\ iteration[t] > 0)
                  => RoundRows(t, Len(tool_calls[t]))

\* the second model call is due after a round of two calls
C7_Witness ==
    \E t \in turns :
        /\ pc[t] = "model"
        /\ iteration[t] = 1
        /\ Len(tool_calls[t]) = 2
        /\ alive

\* C8: the process exits on a restart request (the restart tool with mode
\* full, or a result that carries the _restart marker) only after the tool
\* message of the requesting call has been saved.
C8_RestartAfterPersist ==
    \A t \in turns : \A k \in 1..Len(trace[t]) :
        (/\ trace[t][k].op = "exit"
         /\ (trace[t][k].kind = "marker" \/ trace[t][k].name = "restart"))
            => \E j \in 1..(k - 1) :
                  /\ trace[t][j].op = "insert"
                  /\ trace[t][j].kind = "tool"
                  /\ trace[t][j].round = trace[t][k].round
                  /\ trace[t][j].idx = trace[t][k].idx

\* C9: after write_capability returned status ok in a round, the tool set of
\* the next round of the turn has the capability.
C9_WrittenCapabilityVisible ==
    \A t \in turns :
        (pc[t] = "model" /\ iteration[t] > 0)
            => \A k \in 1..Len(trace[t]) :
                  (/\ trace[t][k].op = "event"
                   /\ trace[t][k].kind = "tool_result"
                   /\ trace[t][k].content = WriteOk
                   /\ trace[t][k].round = iteration[t] - 1)
                      => tool_calls[t][trace[t][k].idx].arguments.name
                            \in DOMAIN tool_map[t]

SameNamesAndSchemas(c1, c2) ==
    /\ DOMAIN c1 = DOMAIN c2
    /\ \A name \in DOMAIN c1 :
          /\ c1[name].description = c2[name].description
          /\ c1[name].schema = c2[name].schema

\* C10: two consecutive loads with no write to the capability records or the
\* code units between the first one's SELECT and the second one's swap give
\* registries with the same names, descriptions and schemas.
C10_IdempotentReload ==
    last_load.unchanged => SameNamesAndSchemas(last_load.previous, last_load.snapshot)

\* a reload right after the load of the process start found the capability again
C10_Witness ==
    /\ last_load.unchanged
    /\ "capx" \in DOMAIN last_load.snapshot
    /\ epoch = 0

\* the model call of the round failed in this step
ChatRaises(t) ==
    /\ Len(ModelCalls(t))' = Len(ModelCalls(t)) + 1
    /\ (ModelCalls(t)[Len(ModelCalls(t))].kind)' = "raise"

\* C11: when the model call of a round raises, the turn ends in that step with
\* an error event as its last event, nothing is inserted into conversations
\* (so the rows of earlier rounds stay as they are, and the round has no
\* assistant row and no tool row), the messages list is left alone and no tool
\* is dispatched: the trace grows by the failed call and the error event only
C11_ModelCallFailure ==
    [][\A t \in Turns :
          ChatRaises(t) =>
              /\ conversations' = conversations
              /\ messages' = messages
              /\ pc'[t] = "done"
              /\ Len(trace'[t]) = Len(trace[t]) + 2
              /\ SubSeq(trace'[t], 1, Len(trace[t])) = trace[t]
              /\ trace'[t][Len(trace'[t])].op = "event"
              /\ trace'[t][Len(trace'[t])].kind = "error"
              /\ files' = files /\ sys_modules' = sys_modules
              /\ result' = result]_vars

\* the second model call of a turn failed after a round that saved its rows
C11_Witness ==
    /\ pc[1] = "done"
    /\ iteration[1] = 1
    /\ Len(conversations) = 3
    /\ Len(ModelCalls(1)) = 2
    /\ ModelCalls(1)[2].kind = "raise"

\* the call that turn t is about to look up is in no entry of its dispatch map
UnknownTool(t) == pc[t] = "dispatch" /\ tc(t).name \notin DOMAIN tool_map[t]

\* C12: a call whose name is not in the dispatch map executes nothing (no tool
\* runs, no file and no module changes), gets the result {"error": "unknown
\* tool: <name>"}, that result is saved as the tool row of the call's id, and
\* the turn goes on to its next call or its next model call
C12_UnknownTool ==
    [][\A t \in Turns :
          /\ (UnknownTool(t) /\ trace'[t] # trace[t]) =>
                /\ result'[t] = ErrUnknownTool
                /\ pc'[t] = "persist"
                /\ trace'[t] = trace[t] \o
                        <<Event(t, "tool_call", tc(t).name, None),
                          Event(t, "tool_result", tc(t).name, ErrUnknownTool)>>
                /\ files' = files /\ sys_modules' = sys_modules /\ alive' = alive
          /\ (pc[t] = "persist" /\ result[t] = ErrUnknownTool /\ trace'[t] # trace[t]) =>
                /\ conversations' =
                       Append(conversations, Message("tool", ErrUnknownTool, tc(t).id, <<>>))
                /\ alive'
                /\ IF idx[t] < Len(tool_calls[t])
                       THEN pc'[t] = "dispatch" /\ idx'[t] = idx[t] + 1
                       ELSE pc'[t] = "model"]_vars

SameCall(d, e) == d.name = e.name /\ d.round = e.round /\ d.idx = e.idx
IsExec(e) == e.op = "exec"
IsToolCall(e) == e.op = "event" /\ e.kind = "tool_call"
IsToolResult(e) == e.op = "event" /\ e.kind = "tool_result"

\* C13: in the events of a turn a tool_call event is the last event so far or
\* is directly followed by the tool_result event of the same call and name,
\* every tool_result event directly follows the tool_call event of its call,
\* and a terminal event is the last event; a tool starts to execute right
\* after the tool_call event of its call and before the tool_result event,
\* and a model call is never made between the two events of a call
C13_EventOrder ==
    \A t \in Turns :
        LET ev == Events(t)
            tr == trace[t]
        IN  /\ \A i \in 1..Len(ev) :
                  /\ IsToolCall(ev[i]) =>
                        \/ i = Len(ev)
                        \/ IsToolResult(ev[i + 1]) /\ SameCall(ev[i], ev[i + 1])
                  /\ IsToolResult(ev[i]) =>
                        i > 1 /\ IsToolCall(ev[i - 1]) /\ SameCall(ev[i - 1], ev[i])
                  /\ IsTerminal(ev[i]) => i = Len(ev)
            /\ \A k \in 1..Len(tr) :
                  /\ IsExec(tr[k]) =>
                        /\ k > 1 /\ IsToolCall(tr[k - 1]) /\ SameCall(tr[k - 1], tr[k])
                        /\ \A j \in 1..(k - 1) :
                              IsToolResult(tr[j]) => ~SameCall(tr[j], tr[k])
                        /\ k < Len(tr) =>
                              \/ IsToolResult(tr[k + 1]) /\ SameCall(tr[k], tr[k + 1])
                              \/ tr[k + 1].op = "exit"
                  /\ (IsModelCall(tr[k]) /\ k > 1) => ~IsToolCall(tr[k - 1])

\* a finished turn whose round had two calls: five events, the last terminal
C13_Witness ==
    /\ pc[1] = "done"
    /\ Len(Events(1)) = 5
    /\ IsToolCall(Events(1)[3])
    /\ Events(1)[3].idx = 2
    /\ IsTerminal(Events(1)[5])
    /\ Len(SelectSeq(trace[1], IsExec)) = 2

\* C14: every bootstrap name of a dispatch map stands for the bootstrap tool,
\* also when the registry snapshot holds a capability of that name, and a call
\* to that name is never executed by the capability
C14_BootstrapPrecedence ==
    \A t \in Turns :
        /\ \A name \in BootstrapNames : tool_map[t][name] = "bootstrap"
        /\ \A k \in 1..Len(trace[t]) :
              (IsToolResult(trace[t][k]) /\ trace[t][k].name \in BootstrapNames) =>
                  trace[t][k].content # CapOk

\* C15: at every point of every interleaving the registry is the complete
\* mapping built by the load that finished last (at the start: by the load of
\* the startup), and the dispatch map a turn holds was collected from the
\* complete result of one finished load (or from the empty mapping); a load
\* that finishes later leaves the maps the turns hold as they are
C15_AtomicSnapshotSwap ==
    /\ loaded_capabilities = last_load.snapshot
    /\ loaded_capabilities \in last_load.finished
    /\ \A t \in Turns :
          \E s \in last_load.finished \cup {EmptyMap} : tool_map[t] = collect_tools(s)

\* one turn holds the dispatch map collected before a load of the other turn
\* replaced the registry
C15_Witness ==
    /\ "capx" \in DOMAIN loaded_capabilities
    /\ Cardinality(last_load.finished) = 2
    /\ pc[2] \in {"model", "dispatch", "fetch", "swap"}
    /\ "capx" \notin DOMAIN tool_map[2]

\* turn t swaps its mapping in
Swaps(t) == pc[t] = "swap" /\ pc'[t] = "persist"

\* C16: load/reload calls are serialized: a load that read the capability
\* records earlier never replaces the snapshot of a load that read them
\* later, so the registry is a load of the records as last read
C16_ReloadsSerialized ==
    [][\A t \in Turns : Swaps(t) => rows[t].epoch >= last_load.fetched]_vars

\* C17: after earlier turns that ran to their end or stopped between two
\* INSERTs, and for every window size, the messages handed to the model at
\* each model call of a turn (system prompt, reconstructed history, the new
\* user message, the rounds of the turn so far) satisfy the pairing invariant
C17_ModelInputPaired ==
    \A t \in turns : pc[t] = "model" => PairingInvariant(messages[t])

\* the second model call of a turn whose history kept the exchange of an
\* earlier turn that stopped before its final text
C17_Witness ==
    /\ pc[1] = "model"
    /\ iteration[1] = 1
    /\ Len(messages[1]) = 9
    /\ HasToolCalls(messages[1][2])
    /\ HasToolCalls(messages[1][7])
    /\ Len(conversations) = 8

\* the code unit of name resolves: its file is there and runs, and the module
\* has the function, from this run or from an earlier import of the module
Resolves(name, fs, mods) ==
    /\ name \in DOMAIN fs
    /\ fs[name] # "raises"
    /\ \/ fs[name] = "good"
       \/ name \in DOMAIN mods /\ mods[name].has_fn

Only(recs, name) == [n \in {name} |-> recs[n]]

\* C18: a load returns a snapshot that holds exactly the records whose code
\* unit resolves, each with the name, description and schema of its record; a
\* record that does not resolve is left out and changes nothing for the
\* others: every record fares as it would in a load of that record alone
C18_LoadSkipsUnresolved ==
    [][(scan_pc = "load" /\ scan_pc' = "loaded") =>
          /\ DOMAIN loaded_capabilities' =
                 {n \in DOMAIN capabilities : Resolves(n, files, sys_modules)}
          /\ \A n \in DOMAIN loaded_capabilities' :
                 loaded_capabilities'[n] = ToolDefinition(n, capabilities[n])
          /\ \A n \in DOMAIN capabilities :
                 LET alone == load_capabilities(Only(capabilities, n), files, sys_modules)
                 IN  /\ n \in DOMAIN loaded_capabilities' <=> n \in DOMAIN alone.capabilities
                     /\ n \in DOMAIN sys_modules' <=> n \in DOMAIN alone.mods]_vars

\* the first record read did not resolve and the second is in the snapshot
C18_Witness ==
    /\ scan_pc = "loaded"
    /\ DOMAIN capabilities = {"capx", "restart"}
    /\ DOMAIN loaded_capabilities = {"restart"}
    /\ "capx" \in DOMAIN files /\ files["capx"] = "raises"

IsStr(value) == value # NonString

\* C19: every tool result that a turn emits in a tool_result event, appends
\* to messages or saves as a tool row is a string, whatever tool produced it
C19_ResultIsString ==
    /\ \A t \in Turns :
          /\ \A k \in 1..Len(trace[t]) :
                IsToolResult(trace[t][k]) => IsStr(trace[t][k].content)
          /\ \A k \in 1..Len(messages[t]) :
                messages[t][k].role = "tool" => IsStr(messages[t][k].content)
    /\ \A k \in 1..Len(conversations) :
          conversations[k].role = "tool" => IsStr(conversations[k].content)

\* the ids carried by the tool messages that directly follow h[p]
RunIds(h, p) ==
    {h[q].tool_call_id : q \in {k \in RunAfter(h, p) : h[k].tool_call_id # None}}

Requested(h, p) == {h[p].tool_calls[k].id : k \in 1..Len(h[p].tool_calls)}

\* the last message before h[i] that is no tool message (0: there is none)
Owner(h, i) ==
    LET before == {p \in 1..(i - 1) : h[p].role # "tool"}
    IN  IF before = {} THEN 0 ELSE CHOOSE p \in before : \A q \in before : q <= p

\* the rule: an assistant message with tool calls stays when the run after it
\* carries exactly the requested ids; a tool message stays when it is in the
\* run of such a message; any other message stays
Stays(h, i) ==
    IF h[i].role = "tool"
        THEN LET p == Owner(h, i)
             IN  p > 0 /\ HasToolCalls(h[p]) /\ RunIds(h, p) = Requested(h, p)
    ELSE HasToolCalls(h[i]) => RunIds(h, i) = Requested(h, i)

\* the messages of h that stay, unmodified and in their order
Staying(h) ==
    LET kept == {i \in 1..Len(h) : Stays(h, i)}
    IN  [k \in 1..Cardinality(kept) |->
            h[CHOOSE i \in kept : Cardinality({j \in kept : j <= i}) = k]]

\* C20: for an assistant message with tool calls the scan takes the run of
\* tool messages that directly follows it; when the ids of the run are the
\* requested ids the message and the whole run are kept as they are, otherwise
\* the message and every message of the run are dropped. An assistant message
\* with tool calls that ends the window, or whose run is cut by the window, is
\* dropped, so no kept assistant message with tool calls ends the history
C20_ReconstructionRule ==
    scan_pc = "done" =>
        /\ history = Staying(raw_history)
        /\ \A p \in 1..Len(history) : HasToolCalls(history[p]) => p < Len(history)
        /\ (raw_history # <<>> /\ HasToolCalls(raw_history[Len(raw_history)])) =>
               ~Stays(raw_history, Len(raw_history))

\* a window that holds a complete exchange of two calls, which is kept, and
\* ends with an assistant message with tool calls, which is dropped
C20_Witness ==
    /\ scan_pc = "done"
    /\ Len(raw_history) = 4
    /\ Len(raw_history[1].tool_calls) = 2
    /\ HasToolCalls(raw_history[4])
    /\ Len(history) = 3

\* a is b with some messages left out
RECURSIVE IsSubsequence(_, _)
IsSubsequence(a, b) ==
    IF a = <<>> THEN TRUE
    ELSE IF b = <<>> THEN FALSE
    ELSE IF a[1] = b[1] THEN IsSubsequence(Tail(a), Tail(b))
    ELSE IsSubsequence(a, Tail(b))

\* a user message or an assistant message without tool calls
IsPlain(m) == m.role \in {"user", "assistant"} /\ m.tool_calls = <<>>

\* C21: the reconstruction only filters: its output is the input with some
\* messages left out, in the same order and none altered; every user message
\* and every assistant message without tool calls of the input is in the
\* output; and the reconstruction of the output is the output
C21_OnlyFilters ==
    scan_pc = "done" =>
        /\ IsSubsequence(history, raw_history)
        /\ SelectSeq(history, IsPlain) = SelectSeq(raw_history, IsPlain)
        /\ Sanitize(history) = history

\* a window that opens with a stray tool message, which is left out, before
\* a user message and a complete exchange, which are kept
C21_Witness ==
    /\ scan_pc = "done"
    /\ Len(raw_history) = 4
    /\ raw_history[1].role = "tool"
    /\ raw_history[2].role = "user"
    /\ Len(history) = 3
    /\ HasToolCalls(history[2])

IsToolInsert(e) == e.op = "insert" /\ e.kind = "tool"
Starts(e) == IsToolCall(e) \/ IsExec(e)

\* C22: the calls of a round are dispatched one at a time in the order of the
\* model's list: the i-th call dispatched and the i-th result saved are the
\* i-th call of the list, call i + 1 starts (its tool_call event, its
\* execution) only after the result of call i has been saved, and the tool
\* rows of a round are saved in the order of the calls
C22_SequentialDispatch ==
    \A t \in turns :
        LET tr == trace[t]
        IN  /\ \A k \in 1..Len(tr) :
                  /\ (Starts(tr[k]) /\ tr[k].idx > 1) =>
                        \E j \in 1..(k - 1) :
                            /\ IsToolInsert(tr[j])
                            /\ tr[j].round = tr[k].round
                            /\ tr[j].idx = tr[k].idx - 1
                  /\ IsToolInsert(tr[k]) =>
                        \A j \in 1..(k - 1) :
                            (Starts(tr[j]) \/ IsToolInsert(tr[j])) =>
                                \/ tr[j].round < tr[k].round
                                \/ tr[j].round = tr[k].round /\ tr[j].idx <= tr[k].idx
                  /\ (IsToolInsert(tr[k]) /\ tr[k].idx > 1) =>
                        \E j \in 1..(k - 1) :
                            /\ IsToolInsert(tr[j])
                            /\ tr[j].round = tr[k].round
                            /\ tr[j].idx = tr[k].idx - 1
                  /\ (tr[k].round = iteration[t] /\ tr[k].idx >= 1
                        /\ tr[k].idx <= Len(tool_calls[t])) =>
                        /\ Starts(tr[k]) => tr[k].name = tool_calls[t][tr[k].idx].name
                        /\ IsToolInsert(tr[k]) => tr[k].name = tool_calls[t][tr[k].idx].id
            /\ (alive /\ pc[t] \in {"dispatch", "upsert", "fetch", "swap", "persist"}) =>
                  RoundRows(t, idx[t] - 1)

\* the second call of a round is running after the first, which failed, had
\* its result saved
C22_Witness ==
    /\ pc[1] = "persist"
    /\ idx[1] = 2
    /\ tool_calls[1][1].id = "a" /\ tool_calls[1][2].id = "b"
    /\ conversations[Len(conversations)].tool_call_id = "a"
    /\ conversations[Len(conversations)].content = ErrException

\* the model call that turn t makes in this step
Called(t) == (ModelCalls(t)[Len(ModelCalls(t))])'
Calls(t) == Len(ModelCalls(t))' = Len(ModelCalls(t)) + 1

\* C23: a response with tool calls leads to the dispatch of its first call,
\* with or without text; a response without tool calls ends the turn with the
\* assistant event; and once a turn has emitted its assistant or error event
\* it makes no model call, dispatches no tool, writes nothing to the store
\* and emits no event
C23_TurnStateMachine ==
    [][\A t \in Turns :
          /\ (Calls(t) /\ Called(t).kind = "reply" /\ Called(t).idx > 0) =>
                /\ pc'[t] = "dispatch"
                /\ idx'[t] = 1
                /\ Len(tool_calls'[t]) = Called(t).idx
                /\ TerminalEvents(t)' = <<>>
          /\ (Calls(t) /\ Called(t).kind = "reply" /\ Called(t).idx = 0) =>
                /\ pc'[t] = "done"
                /\ trace'[t][Len(trace'[t])].op = "event"
                /\ trace'[t][Len(trace'[t])].kind = "assistant"
          /\ TerminalEvents(t) # <<>> =>
                /\ pc[t] = "done"
                /\ t \in turns => UNCHANGED <<trace, conversations, pc, messages, files,
                                               capabilities, loaded_capabilities, alive>>]_vars

\* a response with text and a tool call was dispatched, and the turn has ended
\* with a later response without tool calls
C23_Witness ==
    /\ pc[1] = "done"
    /\ Len(ModelCalls(1)) = 2
    /\ ModelCalls(1)[1].content = "txt" /\ ModelCalls(1)[1].idx = 1
    /\ ModelCalls(1)[2].kind = "reply" /\ ModelCalls(1)[2].idx = 0
    /\ Len(TerminalEvents(1)) = 1

\* turn t runs write_capability on code that does not compile in this step
WritesBadSyntax(t) ==
    /\ pc[t] = "dispatch" /\ pc'[t] # "dispatch"
    /\ tc(t).name = "write_capability"
    /\ tc(t).arguments.valid
    /\ tc(t).arguments.code = "syntax"

\* C24: a write_capability call whose code fails the syntax check returns
\* the syntax_error result and does nothing else: the code units, the
\* capability records, the imported modules and the registry are as before,
\* and no load of the registry is started
C24_SyntaxErrorNoSideEffect ==
    [][\A t \in Turns :
          /\ WritesBadSyntax(t) =>
                /\ pc'[t] = "persist"
                /\ result'[t] = SyntaxError
          /\ Rejected(t, {SyntaxError}) =>
                /\ files' = files
                /\ capabilities' = capabilities
                /\ sys_modules' = sys_modules
                /\ loaded_capabilities' = loaded_capabilities
                /\ last_load' = last_load
                /\ epoch' = epoch]_vars

\* write_capability returned syntax_error for a name that is registered and
\* loaded
C24_Witness ==
    /\ pc[1] = "persist"
    /\ tc(1).name = "write_capability"
    /\ result[1] = SyntaxError
    /\ "capx" \in DOMAIN loaded_capabilities
    /\ "capx" \in DOMAIN files

\* write_capability has just returned status ok to turn t
WriteReturnedOk(t) ==
    /\ pc[t] = "persist"
    /\ tc(t).name = "write_capability"
    /\ result[t] = WriteOk

\* C25: the capability records are one per name; when a write_capability call
\* has returned status ok, the record of its name holds the description, the
\* code location and the schema of that call and nothing of an older
\* registration, and the registry entry of the name has the same description
\* and schema
C25_LatestRegistrationWins ==
    /\ \A name \in DOMAIN capabilities : capabilities[name].tool_schema.name = name
    /\ \A t \in turns :
          WriteReturnedOk(t) =>
              LET args == tc(t).arguments
                  schema == ToolSchema(args.name, Description(args.ver), Parameters(args.ver))
              IN  /\ args.name \in DOMAIN capabilities
                  /\ capabilities[args.name] =
                         [description |-> Description(args.ver),
                          file_path |-> args.name,
                          tool_schema |-> schema]
                  /\ args.name \in DOMAIN loaded_capabilities
                  /\ loaded_capabilities[args.name].description = Description(args.ver)
                  /\ loaded_capabilities[args.name].schema = schema

\* a second registration of capx, with another description and schema, has
\* returned status ok
C25_Witness ==
    /\ WriteReturnedOk(1)
    /\ tc(1).arguments.ver = 2
    /\ Len(SelectSeq(trace[1], IsExec)) = 2
    /\ SelectSeq(trace[1], IsExec)[1].name = "write_capability"
    /\ iteration[1] = 1

\* the rows stored before the turn that has just saved its user message
StoredBefore == SubSeq(conversations, 1, Len(conversations) - 1)

\* C26: at the first model call of a turn the messages are the system prompt,
\* the reconstructed history of the rows stored before the turn, and the new
\* user message, which is in the list once
C26_UserMessageOnce ==
    \A t \in turns :
        (pc[t] = "model" /\ iteration[t] = 0) =>
            /\ messages[t] = <<SystemMessage>> \o load_context(StoredBefore)
                                \o <<Message("user", UserText, None, <<>>)>>
            /\ Len(SelectSeq(messages[t], LAMBDA m : m.role = "user"))
                  = 1 + Len(SelectSeq(load_context(StoredBefore), LAMBDA m : m.role = "user"))

\* turn t takes a call whose arguments text is no JSON in this step
TakesBadJson(t) ==
    /\ pc[t] = "dispatch"
    /\ ~tc(t).arguments.valid
    /\ trace'[t] # trace[t]

\* C27: a call whose arguments text is not JSON does not abort the turn: the
\* call gets an error result, which is saved as the tool row of the call, and
\* the turn goes on from there
C27_BadJsonHandled ==
    [][\A t \in Turns :
          /\ TakesBadJson(t) =>
                /\ pc'[t] = "persist"
                /\ result'[t] \in {ErrException, ErrUnknownTool}
          /\ (pc[t] = "persist" /\ ~tc(t).arguments.valid /\ trace'[t] # trace[t]) =>
                /\ conversations' =
                       Append(conversations, Message("tool", result[t], tc(t).id, <<>>))
                /\ pc'[t] \in {"dispatch", "model"}]_vars

SameRound(d, e) == d.round = e.round /\ d.idx = e.idx

\* the tool row of the call of entry e is in the store
ResultStored(t, e) ==
    /\ \E j \in 1..Len(trace[t]) :
          IsToolInsert(trace[t][j]) /\ SameRound(trace[t][j], e)
    /\ \E k \in 1..Len(conversations) :
          conversations[k].role = "tool" /\ conversations[k].content = e.content

\* C28: when a tool_result event has been emitted for a call, the tool row of
\* that call is in the conversation store, so a turn whose consumer stops
\* reading at that event leaves no executed call without its result
C28_ResultStoredBeforeEvent ==
    \A t \in turns : \A k \in 1..Len(trace[t]) :
        IsToolResult(trace[t][k]) => ResultStored(t, trace[t][k])

\* turn t looks the current call up in this step
LooksUp(t) == pc[t] = "dispatch" /\ tc(t).arguments.valid /\ trace'[t] # trace[t]

\* C29: the calls of a round are resolved against the dispatch map collected
\* before the model call of the round: the map of a turn changes only when a
\* round ends, when it becomes the collection of the registry of that moment;
\* a call of a name that is not in the map gets the unknown-tool result also
\* when an earlier call of the round has put the name into the registry, and
\* a call of a name in the map is executed by the tool the map holds
C29_RoundDispatchMap ==
    [][\A t \in Turns :
          /\ tool_map'[t] # tool_map[t] =>
                /\ pc'[t] = "model"
                /\ tool_map'[t] = collect_tools(loaded_capabilities')
          /\ (pc[t] # "model" /\ pc'[t] = "model") =>
                tool_map'[t] = collect_tools(loaded_capabilities')
          /\ (LooksUp(t) /\ tc(t).name \notin DOMAIN tool_map[t]) =>
                result'[t] = ErrUnknownTool /\ pc'[t] = "persist"
          /\ (LooksUp(t) /\ tc(t).name \in DOMAIN tool_map[t]) =>
                LET out == Execute(tool_map[t][tc(t).name], tc(t), files, sys_modules)
                IN  /\ files' = out.files
                    /\ out.kind \in {"return"} => result'[t] = out.value]_vars

\* the second call of a round got the unknown-tool result for the capability
\* that the first call of the round registered
C29_Witness ==
    /\ pc[1] = "persist"
    /\ idx[1] = 2
    /\ tool_calls[1][1].name = "write_capability"
    /\ tc(1).name = "capx"
    /\ result[1] = ErrUnknownTool
    /\ "capx" \in DOMAIN loaded_capabilities

\* the reconstruction of a window that holds the whole store
WholeStore == Sanitize([k \in 1..Len(conversations) |-> RowToMessage(conversations[k])])

\* the round that turn t has completed is kept: its assistant message and,
\* right after it, the results of its calls
RoundKept(t, h) ==
    \E p \in 1..Len(h) :
        /\ h[p].role = "assistant"
        /\ h[p].tool_calls = tool_calls[t]
        /\ p + Len(tool_calls[t]) <= Len(h)
        /\ \A i \in 1..Len(tool_calls[t]) :
              /\ h[p + i].role = "tool"
              /\ h[p + i].tool_call_id = tool_calls[t][i].id

\* C30: with two turns at once on one store, whatever the order of their
\* writes, a round that a turn has completed is kept by a later reconstruction
\* whose window holds the whole round: its assistant message with the tool
\* calls and all results of the round
C30_ConcurrentRoundsKept ==
    \A t \in turns :
        (alive /\ pc[t] = "model" /\ iteration[t] > 0) => RoundKept(t, WholeStore)

\* the assistant rows of the store that carry text only
FinalRows == SelectSeq(conversations, LAMBDA row : row.role = "assistant" /\ row.tool_calls = <<>>)

EndsWithAssistant(t) ==
    /\ trace[t] # <<>>
    /\ trace[t][Len(trace[t])].op = "event"
    /\ trace[t][Len(trace[t])].kind = "assistant"

\* C31: when the assistant event of a turn has been emitted, an assistant row
\* with the same text and no tool calls (the empty text when the model gave
\* none) was saved just before it, and it is the only such row of the turn; a
\* turn that has not ended with an assistant event, in particular one that
\* ended with an error event, has saved no such row
C31_FinalTextPersisted ==
    \A t \in turns :
        IF EndsWithAssistant(t)
            THEN LET n == Len(trace[t])
                 IN  /\ n > 1
                     /\ trace[t][n - 1].op = "insert"
                     /\ trace[t][n - 1].kind = "assistant"
                     /\ trace[t][n - 1].content = trace[t][n].content
                     /\ Len(FinalRows) = 1
                     /\ FinalRows[1].content = trace[t][n].content
                     /\ conversations[Len(conversations)] = FinalRows[1]
            ELSE FinalRows = <<>>

\* a turn ended with the assistant event of a response without content, after
\* a round of tool calls
C31_Witness ==
    /\ pc[1] = "done"
    /\ EndsWithAssistant(1)
    /\ trace[1][Len(trace[1])].content = ""
    /\ iteration[1] = 1
    /\ Len(conversations) >= 4

====
